---- MODULE Spec2Model ----
\* certlint command line utility: the lint engine (do), the chain resolver
\* (getIssuerPool, getIssuer, downloadCert) and the bulk pipeline
\* (doBulk reader, runBulk workers, saveResults writer) with its two
\* channels and the shared `running` counter.
EXTENDS Integers, Sequences, FiniteSets, TLC

\* ---------------------------------------------------------------- bounds
\* runtime.NumCPU(): the number of runBulk goroutines main starts.
NumWorkers == 2
\* the number of BEGIN..END blocks of the bulk file.
MaxBlocks == 2

\* ------------------------------------------------------ program constants
JobsCap == 100
ResultsCap == 100
CacheCap == 200

Nil == "nil"

\* ------------------------------------------------------------- findings
\* errors.Errors: an ordered list of {priority, message}.
F(sev, msg) == [sev |-> sev, msg |-> msg]

NoticeUp == {"Notice", "Warning", "Error", "Alert", "Critical", "Emergency"}
AllSev == NoticeUp \cup {"Info", "Debug"}

\* Errors.List(priorities...): the findings of the given priorities, in order;
\* with no priority given, all of them.
List(e, sevs) == SelectSeq(e, LAMBDA f : f.sev \in sevs)
ListAll(e) == List(e, AllSev)

\* ------------------------------------------------- the certificates at hand
\* What the libraries report for each DER of the model's world:
\*   asn1    findings of asn1.Linter.CheckStruct
\*   loads   certdata.Load succeeds
\*   type    certdata.Data.Type
\*   expired Cert.NotAfter.Before(time.Now())
\*   urls    Cert.IssuingCertificateURL
\*   aki     Cert.AuthorityKeyId ("" when absent)
\*   dn      Cert.RawSubject, idn Cert.RawIssuer
\*   signer  the certificate whose key made the signature ("root": a trust anchor)
\*   lint    findings of the registered checks that read the certificate alone
Certs ==
  [ clean  |-> [asn1 |-> <<>>, loads |-> TRUE, type |-> "DV", expired |-> FALSE,
                urls |-> <<"u_ica">>, aki |-> "k_ica", dn |-> "clean", idn |-> "ica",
                signer |-> "ica", lint |-> <<>>],
    lint   |-> [asn1 |-> <<F("Warning", <<"asn1">>)>>, loads |-> TRUE, type |-> "OV",
                expired |-> FALSE,
                urls |-> <<"u_ica">>, aki |-> "k_ica", dn |-> "lint", idn |-> "ica",
                signer |-> "ica", lint |-> <<F("Error", <<"sha1">>)>>],
    excl   |-> [asn1 |-> <<F("Warning", <<"asn1">>)>>, loads |-> TRUE, type |-> "-",
                expired |-> FALSE,
                urls |-> <<"u_ica">>, aki |-> "k_ica", dn |-> "excl", idn |-> "ica",
                signer |-> "ica", lint |-> <<>>],
    old    |-> [asn1 |-> <<F("Warning", <<"asn1">>)>>, loads |-> TRUE, type |-> "DV",
                expired |-> TRUE,
                urls |-> <<"u_ica">>, aki |-> "k_ica", dn |-> "old", idn |-> "ica",
                signer |-> "ica", lint |-> <<>>],
    junk   |-> [asn1 |-> <<F("Error", <<"asn1">>)>>, loads |-> FALSE, type |-> "",
                expired |-> FALSE,
                urls |-> <<>>, aki |-> "", dn |-> "", idn |-> "",
                signer |-> "", lint |-> <<>>],
    orphan |-> [asn1 |-> <<>>, loads |-> TRUE, type |-> "DV", expired |-> FALSE,
                urls |-> <<"u_dead", "u_gone">>, aki |-> "k_ica", dn |-> "orphan",
                idn |-> "ica", signer |-> "ica", lint |-> <<>>],
    ica    |-> [asn1 |-> <<>>, loads |-> TRUE, type |-> "CA", expired |-> FALSE,
                urls |-> <<>>, aki |-> "k_root", dn |-> "ica", idn |-> "root",
                signer |-> "root", lint |-> <<>>],
    \* three AIA URLs, of which the second one answers
    multi  |-> [asn1 |-> <<>>, loads |-> TRUE, type |-> "DV", expired |-> FALSE,
                urls |-> <<"u_dead", "u_ica", "u_gone">>, aki |-> "k_ica",
                dn |-> "multi", idn |-> "ica", signer |-> "ica", lint |-> <<>>],
    \* signed by ica, with an AIA URL that serves another CA (stray)
    forged |-> [asn1 |-> <<>>, loads |-> TRUE, type |-> "DV", expired |-> FALSE,
                urls |-> <<"u_wrong">>, aki |-> "k_ica", dn |-> "forged",
                idn |-> "ica", signer |-> "ica", lint |-> <<>>],
    stray  |-> [asn1 |-> <<>>, loads |-> TRUE, type |-> "CA", expired |-> FALSE,
                urls |-> <<"u_ica">>, aki |-> "k_ica", dn |-> "stray", idn |-> "ica",
                signer |-> "ica", lint |-> <<>>],
    \* a certificate whose AIA URLs serve the certificate itself
    loop   |-> [asn1 |-> <<>>, loads |-> TRUE, type |-> "CA", expired |-> FALSE,
                urls |-> <<"u_flaky", "u_loop">>, aki |-> "k_loop", dn |-> "loop",
                idn |-> "loop", signer |-> "loop", lint |-> <<>>] ]

\* http.Get and the parse of the body, per URL: the certificate served, or Nil
\* when the fetch or the parse fails.
Net == [ u_ica |-> "ica", u_dead |-> Nil, u_gone |-> Nil, u_wrong |-> "stray",
         u_flaky |-> "loop", u_loop |-> "loop" ]

\* ------------------------------------------------------- chain resolution
downloadCert(url) == Net[url]

\* cert.CheckSignatureFrom(issuer)
CheckSignatureFrom(cert, issuer) == Certs[cert].signer = issuer

\* The loop of getIssuer from URL i on: the first URL that yields a
\* certificate, with one Error finding per URL that failed before it.
RECURSIVE TryUrls(_, _, _)
TryUrl(urls, i, e, got) ==
  IF got # Nil THEN [issuer |-> got, e |-> e]
  ELSE TryUrls(urls, i + 1, Append(e, F("Error", <<"download", urls[i]>>)))
TryUrls(urls, i, e) ==
  IF i > Len(urls) THEN [issuer |-> Nil, e |-> e]
  ELSE TryUrl(urls, i, e, downloadCert(urls[i]))

\* The end of getIssuer: a signature that does not verify adds an Error, and
\* the downloaded certificate is returned all the same.
SignatureCheck(cert, t) ==
  IF t.issuer # Nil /\ ~CheckSignatureFrom(cert, t.issuer)
  THEN [issuer |-> t.issuer, e |-> Append(t.e, F("Error", <<"signature", cert>>))]
  ELSE t

getIssuer(cert) == SignatureCheck(cert, TryUrls(Certs[cert].urls, 1, <<>>))

\* The loop of getIssuerPool; g is what getIssuer returned for cert.
RECURSIVE IssuerWalk(_, _, _, _, _)
WalkStep(i, issuer, pool, e, g) ==
  IF g.issuer = Nil THEN [issuer |-> issuer, pool |-> pool, e |-> e \o g.e]
  ELSE IssuerWalk(g.issuer, i + 1, IF i = 0 THEN g.issuer ELSE issuer,
                  pool \cup {g.issuer}, e \o g.e)
IssuerWalk(cert, i, issuer, pool, e) ==
  IF Len(Certs[cert].urls) = 0 THEN [issuer |-> issuer, pool |-> pool, e |-> e]
  ELSE WalkStep(i, issuer, pool, e, getIssuer(cert))

getIssuerPool(cert) == IssuerWalk(cert, 0, Nil, {}, <<>>)

\* cert.Verify(Intermediates: pool, KeyUsages: any): a chain of signatures
\* through the pool up to a trust anchor, every certificate in it unexpired.
RECURSIVE Verify(_, _)
Verify(cert, pool) ==
  /\ ~Certs[cert].expired
  /\ \/ Certs[cert].signer = "root"
     \/ /\ Certs[cert].signer \in pool
        /\ Verify(Certs[cert].signer, pool \ {Certs[cert].signer})

\* --------------------------------------------------------- issuer cache
\* lru.Cache of groupcache: entries most recently used first.
ChainKey(cert) ==
  LET c == Certs[cert]
  IN IF Len(c.urls) > 0 THEN [kind |-> "aia", urls |-> c.urls, id |-> ""]
     ELSE IF c.aki # "" THEN [kind |-> "aki", urls |-> <<>>, id |-> c.aki]
     ELSE [kind |-> "dn", urls |-> <<>>, id |-> c.idn]

CacheHas(entries, key) == \E i \in 1..Len(entries) : entries[i].key = key
CacheIdx(entries, key) == CHOOSE i \in 1..Len(entries) : entries[i].key = key
Without(entries, key) == SelectSeq(entries, LAMBDA x : x.key # key)
\* Get: the entry moves to the front.
CacheGet(entries, key) ==
  LET x == entries[CacheIdx(entries, key)]
  IN [val |-> x.val, entries |-> <<x>> \o Without(entries, key)]
\* Add: the entry goes to the front; past the capacity the oldest one goes.
CacheAdd(entries, key, val) ==
  LET l == <<[key |-> key, val |-> val]>> \o Without(entries, key)
  IN IF Len(l) > CacheCap THEN SubSeq(l, 1, CacheCap) ELSE l

NoCache == [on |-> FALSE, entries |-> <<>>]
NewCache == [on |-> TRUE, entries |-> <<>>]

\* ------------------------------------------------------------ the checks
\* aiaissuers.Check
AiaIssuersCheck(cert) ==
  IF Len(Certs[cert].urls) = 0 THEN <<F("Error", <<"no-aia">>)>> ELSE <<>>
\* the Issuer DN check
IssuerDnCheck(cert, issuer) ==
  IF issuer # Nil /\ Certs[cert].idn # Certs[issuer].dn
  THEN <<F("Error", <<"issuer-dn">>)>> ELSE <<>>
\* checks.Certificate.Check(d)
CertificateCheck(cert, issuer) ==
  AiaIssuersCheck(cert) \o IssuerDnCheck(cert, issuer) \o Certs[cert].lint

\* ----------------------------------------------------------- lint engine
\* The end of do: the default Info finding, and the send in batch mode.
DoQueue(result, cache, rtrn) ==
  [result |-> result, send |-> ~rtrn /\ Len(ListAll(result.Errors)) > 0,
   cache |-> cache, panic |-> FALSE]
DoTail(result, cache, rtrn) ==
  DoQueue(IF Len(List(result.Errors, NoticeUp)) = 0
          THEN [result EXCEPT !.Errors = Append(@, F("Info", <<"acceptable">>))]
          ELSE result,
          cache, rtrn)

\* The early returns of do: nothing is queued.
DoReturn(result, cache) ==
  [result |-> result, send |-> FALSE, cache |-> cache, panic |-> FALSE]

\* Chain resolution of do for a certificate without a supplied issuer.
\* A cache hit: trusted, issuer and pool come from the entry.
ChainHit(icaCache, g) ==
  [Trusted |-> g.val.Trusted, Issuer |-> g.val.Issuer, e |-> <<>>,
   cache |-> [icaCache EXCEPT !.entries = g.entries]]
\* A miss: gp is what getIssuerPool returned, trusted whether Verify passed;
\* the entry is stored when there is a cache (the pool is never nil).
ChainStore(icaCache, key, gp, trusted) ==
  [Trusted |-> trusted, Issuer |-> gp.issuer, e |-> gp.e,
   cache |-> IF icaCache.on
             THEN [icaCache EXCEPT !.entries =
                     CacheAdd(@, key, [Trusted |-> trusted, Issuer |-> gp.issuer,
                                       Pool |-> gp.pool])]
             ELSE icaCache]
ChainMiss(icaCache, der, key, gp) ==
  ChainStore(icaCache, key, gp, Verify(der, gp.pool))
\* A lookup that never finds the entry.
ChainLookupAlwaysMiss(icaCache, der, key) ==
  ChainMiss(icaCache, der, key, getIssuerPool(der))
ChainLookup(icaCache, der, key) ==
  IF icaCache.on /\ CacheHas(icaCache.entries, key)
  THEN ChainHit(icaCache, CacheGet(icaCache.entries, key))
  ELSE ChainMiss(icaCache, der, key, getIssuerPool(der))
DoChain(icaCache, der) == ChainLookup(icaCache, der, ChainKey(der))

\* do after the chain is resolved (c): the "Failed to verify chain" Error
\* and the certificate checks.
ChainErrors(e, c) == IF ~c.Trusted THEN Append(e \o c.e, F("Error", <<"verify">>))
                     ELSE e \o c.e
DoChecks(r1, c, rtrn) ==
  DoTail([r1 EXCEPT !.Trusted = c.Trusted, !.Issuer = c.Issuer,
                    !.Errors = ChainErrors(@, c) \o CertificateCheck(r1.Cert, c.Issuer)],
         c.cache, rtrn)

\* do after certdata.Load succeeded.
DoPanic(r1, cache) == [result |-> r1, send |-> FALSE, cache |-> cache, panic |-> TRUE]
\* do without the test of the type.
DoLoadedAnyType(icaCache, r1, d, issuer, exp, rtrn) ==
  IF ~exp /\ d.expired THEN DoReturn(r1, icaCache)
  ELSE IF issuer THEN DoPanic(r1, icaCache)
  ELSE DoChecks(r1, DoChain(icaCache, r1.Cert), rtrn)
\* do with a test of the expiry that leaves exp out.
DoLoadedSkipOld(icaCache, r1, d, issuer, exp, rtrn) ==
  IF d.type = "-" THEN DoReturn(r1, icaCache)
  ELSE IF d.expired THEN DoReturn(r1, icaCache)
  ELSE IF issuer THEN DoPanic(r1, icaCache)
  ELSE DoChecks(r1, DoChain(icaCache, r1.Cert), rtrn)
DoLoaded(icaCache, r1, d, issuer, exp, rtrn) ==
  IF d.type = "-" THEN DoReturn(r1, icaCache)
  ELSE IF ~exp /\ d.expired THEN DoReturn(r1, icaCache)
  ELSE IF issuer THEN DoPanic(r1, icaCache)   \* pool.AddCert on the nil pool
  ELSE DoChecks(r1, DoChain(icaCache, r1.Cert), rtrn)

\* do with a failure of certdata.Load that adds no finding.
DoStartQuiet(icaCache, der, d, issuer, exp, rtrn) ==
  IF ~d.loads
  THEN DoTail([src |-> 0, Type |-> "", Trusted |-> FALSE, Cert |-> Nil,
               Issuer |-> Nil, Pem |-> "", Der |-> der, Errors |-> d.asn1],
              icaCache, rtrn)
  ELSE DoLoaded(icaCache,
                [src |-> 0, Type |-> d.type, Trusted |-> TRUE, Cert |-> der,
                 Issuer |-> Nil, Pem |-> "", Der |-> der, Errors |-> d.asn1],
                d, issuer, exp, rtrn)

DoStart(icaCache, der, d, issuer, exp, rtrn) ==
  IF ~d.loads
  THEN DoTail([src |-> 0, Type |-> "", Trusted |-> FALSE, Cert |-> Nil,
               Issuer |-> Nil, Pem |-> "", Der |-> der, Errors |-> Append(d.asn1, F("Error", <<"load">>))],
              icaCache, rtrn)
  ELSE DoLoaded(icaCache,
                [src |-> 0, Type |-> d.type, Trusted |-> TRUE, Cert |-> der,
                 Issuer |-> Nil, Pem |-> "", Der |-> der, Errors |-> d.asn1],
                d, issuer, exp, rtrn)

\* do(icaCache, der, issuer, exp, rtrn); issuer is TRUE when -issuer names a file.
\* The result carries, next to the fields of testResult, d.Issuer of the
\* certdata.Data it was made from (Issuer).
do(icaCache, der, issuer, exp, rtrn) ==
  DoStart(icaCache, der, Certs[der], issuer, exp, rtrn)

\* ------------------------------------------------------------- the state
VARIABLES
  mode,          \* "bulk" (-bulk) or "single" (-cert)
  file,          \* bulk: the blocks of the input file; single: the one DER
  expOpt,        \* -expired
  issuerOpt,     \* -issuer names a file
  proc,          \* the process: "run", "exit" (main returned), or the panic it died of
  rpc,           \* doBulk: "scan", "done" (returned), "failed" (os.Open failed)
  rpos,          \* doBulk: blocks scanned so far
  count,         \* var count
  jobs,          \* var jobs: the buffered DERs
  jobsClosed,
  results,       \* var results: the buffered testResults
  resultsClosed,
  running,       \* var running
  wpc,           \* runBulk, per worker
  wtmp,          \* the value of running a worker has read
  wres,          \* the testResult a worker is about to send
  caches,        \* icaCache, per worker
  spc,           \* saveResults
  counter,       \* counter of saveResults
  report,        \* the rows of the report file
  stdout,        \* the lines printed in single mode
  received,      \* history: per block, one entry per receive of its DER from jobs:
                 \* the number of findings do collected for it
  emitted,       \* history: per block, the testResults sent on results for it
  handled,       \* history: the testResults the writer has gone through
  closes,        \* history: the executions of close(results)
  pemCert,       \* doBulk: the lines collected (where the file is read line by line)
  decodes,       \* history: the calls of pem.Decode
  calls,         \* history: the calls of do, each with the goroutine that made
                 \* it, the cache it was given and what it returned
  wkCert,        \* getIssuerPool: cert
  wkI,           \* getIssuerPool: i
  wkIssuer,      \* getIssuerPool: issuer
  wkPool,        \* getIssuerPool: pool
  wkE,           \* getIssuerPool: e
  wkPc,          \* getIssuerPool: "loop", "fetch" (in getIssuer), "done"; "off"
  wkUrl,         \* getIssuer: the place in cert.IssuingCertificateURL
  wkLog          \* history: the calls of downloadCert

vars == <<mode, file, expOpt, issuerOpt, proc, rpc, rpos, count, jobs, jobsClosed,
          results, resultsClosed, running, wpc, wtmp, wres, caches, spc,
          counter, report, stdout, received, emitted, handled, closes,
          pemCert, decodes, calls, wkCert, wkI, wkIssuer, wkPool, wkE, wkPc,
          wkUrl, wkLog>>

Workers == 1..NumWorkers
\* The DERs -cert can name, the DERs a bulk file holds, and a block that is
\* no PEM.
Ders == {"clean", "lint", "excl", "old", "junk", "orphan"}
BulkDers == {"clean", "old", "junk"}
BadPem == "badpem"
Blocks == BulkDers \cup {BadPem}
Files == UNION {[1..n -> Blocks] : n \in 0..MaxBlocks}

\* The state the finer-grained specifications add, and its value where the
\* file is read block by block.
ScanVars == <<pemCert, decodes>>
EngineVars == <<calls>>
WalkVars == <<wkCert, wkI, wkIssuer, wkPool, wkE, wkPc, wkUrl, wkLog>>
Units == <<ScanVars, EngineVars, WalkVars>>
ScanIdle == pemCert = <<>> /\ decodes = 0
EngineIdle == calls = <<>>
WalkIdle ==
  /\ wkCert = Nil /\ wkI = 0 /\ wkIssuer = Nil /\ wkPool = {} /\ wkE = <<>>
  /\ wkPc = "off" /\ wkUrl = 0 /\ wkLog = <<>>
UnitsIdle == ScanIdle /\ EngineIdle /\ WalkIdle

NoResult == [src |-> 0, Type |-> "", Trusted |-> FALSE, Cert |-> Nil, Issuer |-> Nil,
             Pem |-> "", Der |-> "", Errors |-> <<>>]

Init ==
  /\ mode \in {"bulk", "single"}
  /\ IF mode = "bulk"
     THEN file \in Files /\ issuerOpt = FALSE
     ELSE file \in [1..1 -> Ders] /\ issuerOpt \in BOOLEAN
  \* -expired changes nothing unless an expired certificate is read
  /\ expOpt \in IF \E i \in 1..Len(file) : file[i] \in Ders /\ Certs[file[i]].expired
                THEN BOOLEAN ELSE {FALSE}
  /\ proc = "run"
  /\ rpc = "scan" /\ rpos = 0 /\ count = 0
  /\ jobs = <<>> /\ jobsClosed = FALSE
  /\ results = <<>> /\ resultsClosed = FALSE
  /\ running = 0
  /\ wpc = [w \in Workers |-> "incLoad"]
  /\ wtmp = [w \in Workers |-> 0]
  /\ wres = [w \in Workers |-> NoResult]
  /\ caches = [w \in Workers |-> NewCache]
  /\ spc = "create" /\ counter = 0
  /\ report = <<>> /\ stdout = <<>>
  /\ received = [i \in 1..Len(file) |-> <<>>]
  /\ emitted = [i \in 1..Len(file) |-> 0]
  /\ handled = <<>> /\ closes = 0
  /\ UnitsIdle

\* The run-time panics of the program.
SendOnClosed == "panic: send on closed channel"
CloseOfClosed == "panic: close of closed channel"
NilDereference == "panic: nil pointer dereference"

Bulk == mode = "bulk" /\ proc = "run"

ReaderVars == <<rpc, rpos, count, jobs, jobsClosed>>
WorkerVars == <<wpc, wtmp, wres, caches, received>>
WriterVars == <<spc, counter, report, handled>>
Args == <<mode, file, expOpt, issuerOpt, stdout>>

\* --------------------------------------------------- doBulk (the reader)
\* os.Open fails: the error is printed and doBulk returns. (rpos = 0 in "scan"
\* is doBulk before os.Open; a successful os.Open is part of its first step.)
OpenFail ==
  /\ Bulk /\ rpc = "scan" /\ rpos = 0
  /\ rpc' = "failed"
  /\ UNCHANGED <<rpos, count, jobs, jobsClosed, results, resultsClosed, running,
                 proc, emitted, closes>>
  /\ UNCHANGED <<WorkerVars, WriterVars, Args, Units>>

\* A block up to its END line that pem.Decode accepts: count++; jobs <- block.Bytes
ReadCert ==
  /\ Bulk /\ rpc = "scan" /\ rpos < Len(file)
  /\ file[rpos + 1] # BadPem
  /\ Len(jobs) < JobsCap
  /\ rpos' = rpos + 1
  /\ count' = count + 1
  /\ jobs' = Append(jobs, [id |-> rpos + 1, der |-> file[rpos + 1]])
  /\ UNCHANGED <<rpc, jobsClosed, results, resultsClosed, running, proc, emitted,
                 closes>>
  /\ UNCHANGED <<WorkerVars, WriterVars, Args, Units>>

\* The testResult doBulk builds for a block pem.Decode rejects: err is the
\* error of os.Open, which is nil here, so e stays empty.
BadPemResult(id) ==
  [src |-> id, Type |-> "", Trusted |-> FALSE, Cert |-> Nil, Issuer |-> Nil,
   Pem |-> "raw", Der |-> "", Errors |-> <<>>]

ReadBadPem ==
  /\ Bulk /\ rpc = "scan" /\ rpos < Len(file)
  /\ file[rpos + 1] = BadPem
  /\ ~resultsClosed /\ Len(results) < ResultsCap
  /\ rpos' = rpos + 1
  /\ results' = Append(results, BadPemResult(rpos + 1))
  /\ emitted' = [emitted EXCEPT ![rpos + 1] = @ + 1]
  /\ UNCHANGED <<rpc, count, jobs, jobsClosed, resultsClosed, running, proc, closes>>
  /\ UNCHANGED <<WorkerVars, WriterVars, Args, Units>>

\* The same send when results has been closed: send on closed channel.
ReadBadPemClosed ==
  /\ Bulk /\ rpc = "scan" /\ rpos < Len(file)
  /\ file[rpos + 1] = BadPem
  /\ resultsClosed
  /\ proc' = SendOnClosed
  /\ UNCHANGED <<ReaderVars, results, resultsClosed, running, emitted, closes>>
  /\ UNCHANGED <<WorkerVars, WriterVars, Args, Units>>

\* End of input: close(jobs)
CloseJobs ==
  /\ Bulk /\ rpc = "scan" /\ rpos = Len(file)
  /\ jobsClosed' = TRUE
  /\ rpc' = "done"
  /\ UNCHANGED <<rpos, count, jobs, results, resultsClosed, running, proc, emitted,
                 closes>>
  /\ UNCHANGED <<WorkerVars, WriterVars, Args, Units>>

\* ------------------------------------------------- runBulk (the workers)
Shared == <<results, resultsClosed, running, proc, emitted, closes>>
SharedNoProc == <<results, resultsClosed, running, emitted, closes>>

\* running += 1 on a plain int: a read, then a write.
WIncLoad(w) ==
  /\ Bulk /\ wpc[w] = "incLoad"
  /\ wtmp' = [wtmp EXCEPT ![w] = running]
  /\ wpc' = [wpc EXCEPT ![w] = "incStore"]
  /\ UNCHANGED <<wres, caches, received, Shared, ReaderVars, WriterVars, Args, Units>>

WIncStore(w) ==
  /\ Bulk /\ wpc[w] = "incStore"
  /\ running' = wtmp[w] + 1
  /\ wtmp' = [wtmp EXCEPT ![w] = 0]
  /\ wpc' = [wpc EXCEPT ![w] = "recv"]
  /\ UNCHANGED <<wres, caches, received, results, resultsClosed, proc,
                 emitted, closes, ReaderVars, WriterVars, Args, Units>>

\* A receive that leaves the DER in the buffer of jobs.
WDoPeek(w, job, r) ==
  /\ jobs' = jobs
  /\ received' = [received EXCEPT ![job.id] = Append(@, Len(ListAll(r.result.Errors)))]
  /\ caches' = [caches EXCEPT ![w] = r.cache]
  /\ wres' = [wres EXCEPT ![w] = IF r.send THEN [r.result EXCEPT !.src = job.id]
                                 ELSE NoResult]
  /\ wpc' = [wpc EXCEPT ![w] = IF r.send THEN "send" ELSE "recv"]

\* der, more := <-jobs with more true, and the call of do up to its send.
WDo(w, job, r) ==
  /\ jobs' = Tail(jobs)
  /\ received' = [received EXCEPT ![job.id] = Append(@, Len(ListAll(r.result.Errors)))]
  /\ caches' = [caches EXCEPT ![w] = r.cache]
  /\ wres' = [wres EXCEPT ![w] = IF r.send THEN [r.result EXCEPT !.src = job.id]
                                 ELSE NoResult]
  /\ wpc' = [wpc EXCEPT ![w] = IF r.send THEN "send" ELSE "recv"]

WRecv(w) ==
  /\ Bulk /\ wpc[w] = "recv"
  /\ Len(jobs) > 0
  /\ WDo(w, Head(jobs), do(caches[w], Head(jobs).der, FALSE, expOpt, FALSE))
  /\ UNCHANGED <<wtmp, Shared, rpc, rpos, count, jobsClosed, WriterVars, Args, Units>>

\* results <- result
WSend(w) ==
  /\ Bulk /\ wpc[w] = "send"
  /\ ~resultsClosed /\ Len(results) < ResultsCap
  /\ results' = Append(results, wres[w])
  /\ emitted' = [emitted EXCEPT ![wres[w].src] = @ + 1]
  /\ wres' = [wres EXCEPT ![w] = NoResult]
  /\ wpc' = [wpc EXCEPT ![w] = "recv"]
  /\ UNCHANGED <<wtmp, caches, received, resultsClosed, running, proc, closes,
                 ReaderVars, WriterVars, Args, Units>>

\* results <- result when results has been closed: send on closed channel.
WSendClosed(w) ==
  /\ Bulk /\ wpc[w] = "send"
  /\ resultsClosed
  /\ proc' = SendOnClosed
  /\ UNCHANGED <<WorkerVars, results, resultsClosed, running, emitted, closes,
                 ReaderVars, WriterVars, Args, Units>>

\* der, more := <-jobs with more false: break, and the read of running -= 1.
WBreak(w) ==
  /\ Bulk /\ wpc[w] = "recv"
  /\ Len(jobs) = 0 /\ jobsClosed
  /\ wtmp' = [wtmp EXCEPT ![w] = running]
  /\ wpc' = [wpc EXCEPT ![w] = "decStore"]
  /\ UNCHANGED <<wres, caches, received, Shared, ReaderVars, WriterVars, Args, Units>>

\* The write of running -= 1, and the goroutine ends.
WDecStore(w) ==
  /\ Bulk /\ wpc[w] = "decStore"
  /\ running' = wtmp[w] - 1
  /\ wtmp' = [wtmp EXCEPT ![w] = 0]
  /\ wpc' = [wpc EXCEPT ![w] = "done"]
  /\ UNCHANGED <<wres, caches, received, results, resultsClosed, proc,
                 emitted, closes, ReaderVars, WriterVars, Args, Units>>

\* ------------------------------------------------ saveResults (the writer)
\* strings.ToUpper(e.Priority().String())
Upper(sev) ==
  CASE sev = "Debug" -> "DEBUG" [] sev = "Info" -> "INFO" [] sev = "Notice" -> "NOTICE"
    [] sev = "Warning" -> "WARNING" [] sev = "Error" -> "ERROR"
    [] sev = "Alert" -> "ALERT" [] sev = "Critical" -> "CRITICAL"
    [] sev = "Emergency" -> "EMERGENCY"

Header == [kind |-> "header", Number |-> <<>>, Id |-> Nil, Type |-> "",
          Severity |-> "", Error |-> <<>>, Cert |-> "", src |-> 0]

\* The columns of one finding e of r: Number is Sprintf("%d", counter) with a
\* certificate and blank without; Id stands for the columns read from r.Cert;
\* src (no column) is the block of the input the row comes from.
Columns(r, e, n) ==
  IF r.Cert # Nil
  THEN [kind |-> "data", Number |-> <<n>>, Id |-> r.Cert, Type |-> r.Type,
        Severity |-> Upper(e.sev), Error |-> e.msg, Cert |-> "", src |-> r.src]
  ELSE [kind |-> "data", Number |-> <<>>, Id |-> Nil, Type |-> "",
        Severity |-> Upper(e.sev), Error |-> e.msg, Cert |-> r.Pem, src |-> r.src]

\* The loop over r.Errors.List(): one row per finding, written and flushed.
\* writer.Write on the open report file is taken to succeed.
Rows(r, errs, n) == [i \in 1..Len(errs) |-> Columns(r, errs[i], n)]
\* A loop that passes over the Info findings.
RowsOfNoInfo(r, n) == Rows(r, List(r.Errors, NoticeUp), n)
RowsOf(r, n) == Rows(r, ListAll(r.Errors), n)

Others == <<results, resultsClosed, running, emitted, closes, ReaderVars, WorkerVars,
            Args, Units>>

\* os.Create fails: saveResults returns the error and main returns.
SCreateFail ==
  /\ Bulk /\ spc = "create"
  /\ spc' = "done" /\ proc' = "exit"
  /\ UNCHANGED <<counter, report, handled, Others>>

\* The header row and counter := 0
SCreate ==
  /\ Bulk /\ spc = "create"
  /\ report' = <<Header>>
  /\ counter' = 0
  /\ spc' = "recv"
  /\ UNCHANGED <<handled, proc, Others>>

\* counter++ inside the loop over the findings.
NextCounterPerFinding(n, r) == n + Len(ListAll(r.Errors))
\* counter++, once per testResult received
NextCounter(n, r) == n + 1

\* r, more := <-results with more true: the rows of r, counter++, and the
\* read of running.
SRecv ==
  /\ Bulk /\ spc = "recv"
  /\ Len(results) > 0
  /\ results' = Tail(results)
  /\ report' = report \o RowsOf(Head(results), counter)
  /\ counter' = NextCounter(counter, Head(results))
  /\ handled' = Append(handled, Head(results))
  /\ spc' = IF running = 0 THEN "close" ELSE "recv"
  /\ UNCHANGED <<proc, resultsClosed, running, emitted, closes, ReaderVars,
                 WorkerVars, Args, Units>>

\* close(results)
SClose ==
  /\ Bulk /\ spc = "close"
  /\ ~resultsClosed
  /\ resultsClosed' = TRUE
  /\ closes' = closes + 1
  /\ spc' = "recv"
  /\ UNCHANGED <<counter, report, handled, proc, results, running,
                 emitted, ReaderVars, WorkerVars, Args, Units>>

\* close(results) on the closed channel: close of closed channel.
SCloseAgain ==
  /\ Bulk /\ spc = "close"
  /\ resultsClosed
  /\ closes' = closes + 1
  /\ proc' = CloseOfClosed
  /\ UNCHANGED <<spc, counter, report, handled, results, resultsClosed,
                 running, emitted, ReaderVars, WorkerVars, Args, Units>>

\* r, more := <-results with more false: break, return nil, and main returns.
SBreak ==
  /\ Bulk /\ spc = "recv"
  /\ Len(results) = 0 /\ resultsClosed
  /\ spc' = "done" /\ proc' = "exit"
  /\ UNCHANGED <<counter, report, handled, Others>>

\* ------------------------------------------------------ single-cert mode
\* main without -bulk: do(nil, der, issuer, exp, true), then the type and
\* every finding go to stdout.
Println(errs) == [i \in 1..Len(errs) |-> <<errs[i].sev>> \o errs[i].msg]
SingleEnd(r) ==
  IF r.panic
  THEN proc' = NilDereference /\ UNCHANGED stdout
  ELSE /\ stdout' = <<<<"Certificate Type:", r.result.Type>>>>
                        \o Println(ListAll(r.result.Errors))
       /\ proc' = "exit"

SingleCert ==
  /\ mode = "single" /\ proc = "run"
  /\ SingleEnd(do(NoCache, file[1], issuerOpt, expOpt, TRUE))
  /\ UNCHANGED <<mode, file, expOpt, issuerOpt, SharedNoProc, ReaderVars,
                 WorkerVars, WriterVars, Units>>

Next ==
  \/ OpenFail \/ ReadCert \/ ReadBadPem \/ ReadBadPemClosed \/ CloseJobs
  \/ \E w \in Workers : WIncLoad(w)
  \/ \E w \in Workers : WIncStore(w)
  \/ \E w \in Workers : WRecv(w)
  \/ \E w \in Workers : WSend(w)
  \/ \E w \in Workers : WSendClosed(w)
  \/ \E w \in Workers : WBreak(w)
  \/ \E w \in Workers : WDecStore(w)
  \/ SCreateFail \/ SCreate \/ SRecv \/ SClose \/ SCloseAgain \/ SBreak
  \/ SingleCert

Spec == Init /\ [][Next]_vars

\* ------------------------------------------------ doBulk, line by line
\* The reader of the bulk file with the lines of the file as its steps: the
\* file is a sequence of lines, and pemCert holds the numbers of the lines
\* collected. The workers and the writer take no step here.
MaxLines == 4

Begin == "-----BEGIN CERTIFICATE-----"
End == "-----END CERTIFICATE-----"
\* The two marker lines, a line of base64 and a line that is no base64.
LineKinds == {Begin, End, "b64", "text"}
LineFiles == UNION {[1..n -> LineKinds] : n \in 0..MaxLines}

NoBlock == [ok |-> FALSE, id |-> 0, der |-> 0]
\* pem.Decode(pemCert): the search goes from one BEGIN line to the next; a
\* BEGIN line makes a block with the first END line after it when all the
\* lines in between are base64. id is the number of the BEGIN line, der the
\* body.
FirstEnd(buf, k) ==
  IF \E j \in (k + 1)..Len(buf) : file[buf[j]] = End
  THEN CHOOSE j \in (k + 1)..Len(buf) :
         /\ file[buf[j]] = End
         /\ \A m \in (k + 1)..(j - 1) : file[buf[m]] # End
  ELSE 0
RECURSIVE Decode(_, _)
DecodeAt(buf, k, e) ==
  IF e # 0 /\ \A j \in (k + 1)..(e - 1) : file[buf[j]] = "b64"
  THEN [ok |-> TRUE, id |-> buf[k], der |-> e - k - 1]
  ELSE Decode(buf, k + 1)
Decode(buf, k) ==
  IF k > Len(buf) THEN NoBlock
  ELSE IF file[buf[k]] # Begin THEN Decode(buf, k + 1)
  ELSE DecodeAt(buf, k, FirstEnd(buf, k))

\* The top of the loop body: a BEGIN line empties pemCert, and the line is
\* appended.
Collect(buf, n) == IF file[n] = Begin THEN <<n>> ELSE Append(buf, n)

ScanInit ==
  /\ mode = "bulk" /\ file \in LineFiles
  /\ expOpt = FALSE /\ issuerOpt = FALSE
  /\ proc = "run"
  /\ rpc = "scan" /\ rpos = 0 /\ count = 0
  /\ jobs = <<>> /\ jobsClosed = FALSE
  /\ results = <<>> /\ resultsClosed = FALSE
  /\ running = 0
  /\ wpc = [w \in Workers |-> "incLoad"]
  /\ wtmp = [w \in Workers |-> 0]
  /\ wres = [w \in Workers |-> NoResult]
  /\ caches = [w \in Workers |-> NewCache]
  /\ spc = "create" /\ counter = 0
  /\ report = <<>> /\ stdout = <<>>
  /\ received = [i \in 1..Len(file) |-> <<>>]
  /\ emitted = [i \in 1..Len(file) |-> 0]
  /\ handled = <<>> /\ closes = 0
  /\ ScanIdle /\ EngineIdle /\ WalkIdle

\* A line without the END marker.
ScanLine ==
  /\ Bulk /\ rpc = "scan" /\ rpos < Len(file)
  /\ file[rpos + 1] # End
  /\ rpos' = rpos + 1
  /\ pemCert' = Collect(pemCert, rpos + 1)
  /\ UNCHANGED <<rpc, count, jobs, jobsClosed, results, resultsClosed, running,
                 proc, emitted, closes, decodes>>
  /\ UNCHANGED <<WorkerVars, WriterVars, Args, EngineVars, WalkVars>>

\* A line with the END marker, and pem.Decode returns a block:
\* count++; jobs <- block.Bytes
ScanEndDecoded ==
  /\ Bulk /\ rpc = "scan" /\ rpos < Len(file)
  /\ file[rpos + 1] = End
  /\ Decode(Collect(pemCert, rpos + 1), 1).ok
  /\ Len(jobs) < JobsCap
  /\ rpos' = rpos + 1
  /\ pemCert' = Collect(pemCert, rpos + 1)
  /\ decodes' = decodes + 1
  /\ count' = count + 1
  /\ jobs' = Append(jobs, [id |-> Decode(pemCert', 1).id, der |-> Decode(pemCert', 1).der])
  /\ UNCHANGED <<rpc, jobsClosed, results, resultsClosed, running, proc, emitted,
                 closes>>
  /\ UNCHANGED <<WorkerVars, WriterVars, Args, EngineVars, WalkVars>>

\* A line with the END marker, and pem.Decode returns nil: the testResult
\* with the lines collected goes on results.
ScanEndRejected ==
  /\ Bulk /\ rpc = "scan" /\ rpos < Len(file)
  /\ file[rpos + 1] = End
  /\ ~Decode(Collect(pemCert, rpos + 1), 1).ok
  /\ ~resultsClosed /\ Len(results) < ResultsCap
  /\ rpos' = rpos + 1
  /\ pemCert' = Collect(pemCert, rpos + 1)
  /\ decodes' = decodes + 1
  /\ results' = Append(results, BadPemResult(rpos + 1))
  /\ emitted' = [emitted EXCEPT ![rpos + 1] = @ + 1]
  /\ UNCHANGED <<rpc, count, jobs, jobsClosed, resultsClosed, running, proc, closes>>
  /\ UNCHANGED <<WorkerVars, WriterVars, Args, EngineVars, WalkVars>>

ScanNext == ScanLine \/ ScanEndDecoded \/ ScanEndRejected \/ CloseJobs

ScanSpec == ScanInit /\ [][ScanNext]_vars

\* ------------------------------------------------- the calls of do alone
\* The goroutines that call do and the calls they make, on any DER: the
\* workers of runBulk, each with its icaCache from one call to the next (exp
\* from -expired, no issuer, rtrn false), or main without -bulk and its
\* single call (no cache, rtrn true). The channels are left out: a Result do would send is
\* in what the call returned (send).
MaxCalls == 3

\* "loop" is left out: getIssuerPool does not return for it.
EngineDers == Ders \cup {"ica", "multi", "forged", "stray"}

EngineInit ==
  /\ mode \in {"bulk", "single"}
  /\ file = <<>>
  /\ expOpt \in BOOLEAN
  /\ issuerOpt \in (IF mode = "single" THEN BOOLEAN ELSE {FALSE})
  /\ proc = "run"
  /\ rpc = "scan" /\ rpos = 0 /\ count = 0
  /\ jobs = <<>> /\ jobsClosed = FALSE
  /\ results = <<>> /\ resultsClosed = FALSE
  /\ running = 0
  /\ wpc = [w \in Workers |-> "incLoad"]
  /\ wtmp = [w \in Workers |-> 0]
  /\ wres = [w \in Workers |-> NoResult]
  /\ caches = [w \in Workers |-> NewCache]
  /\ spc = "create" /\ counter = 0
  /\ report = <<>> /\ stdout = <<>>
  /\ received = <<>> /\ emitted = <<>>
  /\ handled = <<>> /\ closes = 0
  /\ ScanIdle /\ EngineIdle /\ WalkIdle

EngineRest == <<mode, file, expOpt, issuerOpt, rpc, rpos, count, jobs, jobsClosed,
                results, resultsClosed, running, wpc, wtmp, wres, spc, counter,
                report, received, emitted, handled, closes, ScanVars, WalkVars>>

\* A call of do: the DER, the cache given (pre) and what do returned (out).
\* w is the worker that made it (0: main).
EngineCall(w, der, pre, out) ==
  calls' = Append(calls, [w |-> w, der |-> der, pre |-> pre, out |-> out])

\* runBulk: do(icaCache, der, nil, exp, false)
EngineDo ==
  /\ Bulk /\ Len(calls) < MaxCalls
  /\ \E w \in Workers, der \in EngineDers :
       /\ EngineCall(w, der, caches[w], do(caches[w], der, FALSE, expOpt, FALSE))
       /\ caches' = [caches EXCEPT ![w] = calls'[Len(calls')].out.cache]
  /\ UNCHANGED <<proc, stdout, EngineRest>>

\* main: do(nil, der, issuer, *expired, true), and the result is printed.
EngineSingle ==
  /\ mode = "single" /\ proc = "run"
  /\ \E der \in EngineDers :
       EngineCall(0, der, NoCache, do(NoCache, der, issuerOpt, expOpt, TRUE))
  /\ SingleEnd(calls'[1].out)
  /\ UNCHANGED <<caches, EngineRest>>

EngineNext == EngineDo \/ EngineSingle

EngineSpec == EngineInit /\ [][EngineNext]_vars

\* ------------------------------------------- getIssuerPool, step by step
\* The walk of getIssuerPool with the calls of downloadCert as its steps,
\* for any certificate, "loop" included, and a network on which any fetch
\* may fail. Nothing else of the program takes a step here.
MaxWalk == 12

WalkCerts == {"clean", "orphan", "ica", "multi", "forged", "stray", "loop"}

\* What a fetch of url can yield: the certificate served there, or an error.
Served(url) == {Net[url], Nil}

WalkInit ==
  /\ mode = "single" /\ file = <<>>
  /\ expOpt = FALSE /\ issuerOpt = FALSE
  /\ proc = "run"
  /\ rpc = "scan" /\ rpos = 0 /\ count = 0
  /\ jobs = <<>> /\ jobsClosed = FALSE
  /\ results = <<>> /\ resultsClosed = FALSE
  /\ running = 0
  /\ wpc = [w \in Workers |-> "incLoad"]
  /\ wtmp = [w \in Workers |-> 0]
  /\ wres = [w \in Workers |-> NoResult]
  /\ caches = [w \in Workers |-> NewCache]
  /\ spc = "create" /\ counter = 0
  /\ report = <<>> /\ stdout = <<>>
  /\ received = <<>> /\ emitted = <<>>
  /\ handled = <<>> /\ closes = 0
  /\ ScanIdle /\ EngineIdle
  /\ wkCert \in WalkCerts
  /\ wkI = 0 /\ wkIssuer = Nil /\ wkPool = {} /\ wkE = <<>>
  /\ wkPc = "loop" /\ wkUrl = 0 /\ wkLog = <<>>

WalkRest == <<mode, file, expOpt, issuerOpt, proc, stdout, caches, rpc, rpos,
              count, jobs, jobsClosed, results, resultsClosed, running, wpc, wtmp,
              wres, spc, counter, report, received, emitted, handled, closes,
              ScanVars, EngineVars>>

\* for len(cert.IssuingCertificateURL) > 0 is false: return issuer, pool, e
WalkReturn ==
  /\ wkPc = "loop"
  /\ Len(Certs[wkCert].urls) = 0
  /\ wkPc' = "done"
  /\ UNCHANGED <<wkCert, wkI, wkIssuer, wkPool, wkE, wkUrl, wkLog, WalkRest>>

\* The loop is entered: getIssuer(cert) starts on the first URL.
WalkEnter ==
  /\ wkPc = "loop" /\ wkI < MaxWalk
  /\ Len(Certs[wkCert].urls) > 0
  /\ wkPc' = "fetch" /\ wkUrl' = 1
  /\ UNCHANGED <<wkCert, wkI, wkIssuer, wkPool, wkE, wkLog, WalkRest>>

Fetched(got) ==
  Append(wkLog, [cert |-> wkCert, step |-> wkI, n |-> wkUrl,
                 url |-> Certs[wkCert].urls[wkUrl], got |-> got])

\* downloadCert(url) fails: the Error finding, and the next URL; after the
\* last URL getIssuer returns nil and getIssuerPool breaks and returns.
FetchFail ==
  /\ wkPc = "fetch"
  /\ Nil \in Served(Certs[wkCert].urls[wkUrl])
  /\ wkLog' = Fetched(Nil)
  /\ wkE' = Append(wkE, F("Error", <<"download", Certs[wkCert].urls[wkUrl]>>))
  /\ IF wkUrl < Len(Certs[wkCert].urls)
     THEN wkUrl' = wkUrl + 1 /\ wkPc' = "fetch"
     ELSE wkUrl' = 0 /\ wkPc' = "done"
  /\ UNCHANGED <<wkCert, wkI, wkIssuer, wkPool, WalkRest>>

\* downloadCert(url) yields a certificate: getIssuer breaks, checks the
\* signature and returns it; getIssuerPool adds it to the pool, takes it as
\* the issuer at i = 0, and goes on from it.
FetchOk ==
  /\ wkPc = "fetch"
  /\ \E got \in Served(Certs[wkCert].urls[wkUrl]) \ {Nil} :
       /\ wkLog' = Fetched(got)
       /\ wkE' = wkE \o SignatureCheck(wkCert, [issuer |-> got, e |-> <<>>]).e
       /\ wkPool' = wkPool \cup {got}
       /\ wkIssuer' = IF wkI = 0 THEN got ELSE wkIssuer
       /\ wkCert' = got
  /\ wkI' = wkI + 1
  /\ wkPc' = "loop" /\ wkUrl' = 0
  /\ UNCHANGED WalkRest

WalkNext == WalkReturn \/ WalkEnter \/ FetchFail \/ FetchOk

WalkSpec == WalkInit /\ [][WalkNext]_vars

\* ================================================================ claims
AllExited == \A w \in Workers : wpc[w] = "done"
\* The workers that have added themselves to running and not yet taken
\* themselves off it.
Active == {w \in Workers : wpc[w] \in {"recv", "send", "decStore"}}
DataRows == {i \in 1..Len(report) : report[i].kind = "data"}

\* C1: bulk-mode shutdown always completes: once the reader has closed jobs,
\* every worker exits, results is closed and the writer observes it and
\* returns. Every step of the pipeline makes progress, so the run completes
\* iff it cannot come to a halt before the writer returned: as long as the
\* process is alive, jobs is closed and the writer has not returned, some
\* goroutine can take a step.
C1_ShutdownCompletes ==
  (mode = "bulk" /\ proc = "run" /\ jobsClosed /\ spc # "done") => ENABLED Next

\* C2: whenever results gets closed, running is zero, jobs has been closed
\* and no worker is started-and-not-exited.
C2_CloseOnlyAtEnd ==
  [][(~resultsClosed /\ resultsClosed')
       => (running = 0 /\ jobsClosed /\ AllExited)]_vars

\* C3: close(results) is executed at most once in any execution.
C3_ClosedAtMostOnce == closes <= 1

\* C4: no Result is lost or sent too late: when the writer returns from its
\* loop every Result sent on results has been received and written, and no
\* send on results happens after results has been closed.
C4_NoLateOrLostResult ==
  /\ proc # SendOnClosed
  /\ (spc = "done" /\ report # <<>>)
       => \A id \in 1..Len(file) :
            emitted[id] = Cardinality({k \in 1..Len(handled) : handled[k].src = id})

\* C5: running always equals the number of workers started and not yet
\* exited, is never negative, and is zero once all workers have exited.
C5_CounterExact ==
  /\ running = Cardinality(Active)
  /\ running >= 0
  /\ AllExited => running = 0

\* The DERs the reader has put on jobs, and where a DER is.
PutOnJobs(id) == id <= rpos /\ file[id] # BadPem
InJobs(id) == Cardinality({k \in 1..Len(jobs) : jobs[k].id = id})
Pending(id) == \E w \in Workers : wpc[w] = "send" /\ wres[w].src = id

\* C6: every DER put on jobs is received by exactly one worker, never by
\* two and never dropped (it is in the buffer of jobs or has been received
\* once, and once every worker has exited it has been received), and the DER
\* received yields at most one Result on results, sent by the worker that
\* received it.
C6_OneWorkerOneResult ==
  /\ \A id \in 1..Len(file) :
       /\ InJobs(id) + Len(received[id]) = (IF PutOnJobs(id) THEN 1 ELSE 0)
       /\ emitted[id] <= 1
       /\ (file[id] # BadPem /\ (emitted[id] = 1 \/ Pending(id)))
            => Len(received[id]) = 1
       /\ ~(emitted[id] = 1 /\ Pending(id))
  /\ AllExited => jobs = <<>>

\* C6 witness: two DERs went to the workers, one yielded a Result and the
\* other none, and every worker has exited.
C6_Witness ==
  /\ AllExited
  /\ \E a, b \in 1..Len(file) :
       /\ a # b /\ Len(received[a]) = 1 /\ Len(received[b]) = 1
       /\ emitted[a] = 1 /\ emitted[b] = 0

\* C7: in bulk mode a worker puts a Result on results if and only if the
\* FindingSet collected for the certificate is non-empty.
C7_EmitIffFindings ==
  \A id \in 1..Len(file) : \A k \in 1..Len(received[id]) :
    (received[id][k] > 0) <=> (emitted[id] >= 1 \/ Pending(id))

\* The rows of the report that come from block id.
RowsFrom(id) == {i \in DataRows : report[i].src = id}

C9_NumberPerCertificate ==
  \A i, j \in DataRows :
    (report[i].src = report[j].src) <=> (report[i].Number = report[j].Number)

\* C9 as amended: the rows of a Result that carries a certificate all carry
\* the value counter had when the Result was received, which no row of
\* another Result carries; the rows of a Result without a certificate carry
\* a blank Number; counter advances by one per Result received, whatever the
\* number of its findings.
C9_NumberPerResult ==
  /\ counter = Len(handled)
  /\ \A k \in 1..Len(handled) : \A i \in RowsFrom(handled[k].src) :
       report[i].Number = IF handled[k].Cert # Nil THEN <<k - 1>> ELSE <<>>
  /\ \A i, j \in DataRows :
       (report[i].Id # Nil /\ report[j].Id # Nil)
         => ((report[i].src = report[j].src) <=> (report[i].Number = report[j].Number))

\* C9 witness: rows of two Results with a certificate, one of them with two
\* rows.
C9_Witness ==
  \E i, j, m \in DataRows :
    /\ report[i].Id # Nil /\ report[j].Id # Nil /\ report[m].Id # Nil
    /\ i # j /\ report[i].src = report[j].src /\ report[m].src # report[i].src

\* C10: in bulk mode a clean certificate, whose only finding is the default
\* Info finding, produces no row in the report; single mode prints the
\* finding; and the finding is there only with no finding of severity
\* Notice or higher.
Acceptable == F("Info", <<"acceptable">>)
Has(e, f) == \E n \in 1..Len(e) : e[n] = f
C10_CleanHasNoRow ==
  /\ \A i \in DataRows : report[i].Error # Acceptable.msg
  /\ \A k \in 1..Len(handled) :
       Has(handled[k].Errors, Acceptable) => List(handled[k].Errors, NoticeUp) = <<>>
  /\ (mode = "single" /\ proc = "exit")
       => \A n \in 2..Len(stdout) :
            (stdout[n] = <<"Info">> \o Acceptable.msg)
              => \A m \in 2..Len(stdout) : stdout[m][1] \notin NoticeUp
  /\ (mode = "single" /\ proc = "exit" /\ file[1] = "clean")
       => stdout = <<<<"Certificate Type:", "DV">>, <<"Info", "acceptable">>>>

\* The testResults on their way to the report or gone through it.
Sent == {results[k] : k \in 1..Len(results)} \cup {handled[k] : k \in 1..Len(handled)}

\* C11: a block that fails PEM decoding yields exactly one synthetic Result,
\* which carries the raw PEM, no certificate and exactly one Error finding,
\* so that the report gets one row for it with blank identifying columns and
\* the raw PEM in the last column; nothing goes on jobs for the block and the
\* certificate counter counts the decoded blocks only.
C11_BadPemOneError ==
  /\ count = Cardinality({id \in 1..rpos : file[id] # BadPem})
  /\ \A id \in 1..rpos :
       file[id] = BadPem =>
         /\ emitted[id] = 1
         /\ InJobs(id) = 0 /\ received[id] = <<>>
         /\ \A r \in Sent :
              r.src = id =>
                /\ r.Cert = Nil /\ r.Pem = "raw"
                /\ Len(r.Errors) = 1 /\ r.Errors[1].sev = "Error"
         /\ \A k \in 1..Len(handled) :
              handled[k].src = id =>
                /\ Cardinality(RowsFrom(id)) = 1
                /\ \A i \in RowsFrom(id) :
                     report[i].Id = Nil /\ report[i].Cert = "raw"

\* The reader of the claim run over the first k lines of the file: Idle or
\* Collecting, the decode attempts made, the BEGIN lines of the blocks
\* decoded, and the blocks rejected.
RECURSIVE Reader(_)
ReaderStep(m, k) ==
  IF file[k] = Begin THEN [m EXCEPT !.collecting = TRUE, !.start = k]
  ELSE IF file[k] = End /\ m.collecting
  THEN IF \A j \in (m.start + 1)..(k - 1) : file[j] = "b64"
       THEN [m EXCEPT !.collecting = FALSE, !.decodes = @ + 1,
                      !.ders = Append(@, m.start)]
       ELSE [m EXCEPT !.collecting = FALSE, !.decodes = @ + 1,
                      !.rejected = @ + 1]
  ELSE m
Reader(k) ==
  IF k = 0
  THEN [collecting |-> FALSE, start |-> 0, decodes |-> 0, ders |-> <<>>, rejected |-> 0]
  ELSE ReaderStep(Reader(k - 1), k)

\* C12: the reader is a two-state machine: only an END line met while
\* Collecting triggers a decode attempt, an END line met while Idle triggers
\* none and emits nothing; each block decoded puts exactly one DER on jobs,
\* in file order, and count always equals the number of DERs sent on jobs.
C12_TwoStateReader ==
  /\ decodes = Reader(rpos).decodes
  /\ [i \in 1..Len(jobs) |-> jobs[i].id] = Reader(rpos).ders
  /\ Len(results) = Reader(rpos).rejected
  /\ count = Len(jobs)

\* The testResults the calls of do returned.
Returned == {calls[k].out.result : k \in {j \in 1..Len(calls) : ~calls[j].out.panic}}

\* C13: in every Result, on every path through do, Trusted implies that the
\* issuer is not nil, and Trusted is true only if the certificate verified
\* with the intermediates resolved for it.
C13_TrustedHasIssuer ==
  \A r \in Returned :
    r.Trusted => /\ r.Issuer # Nil
                 /\ r.Cert # Nil
                 /\ Verify(r.Cert, getIssuerPool(r.Cert).pool)

\* The calls of do that returned, and those of them that went on to the
\* chain and the checks (the certificate loaded, is not of type "-", and is
\* not an expired one skipped).
Calls == {k \in 1..Len(calls) : ~calls[k].out.panic}
Linted(k) ==
  /\ Certs[calls[k].der].loads
  /\ Certs[calls[k].der].type # "-"
  /\ expOpt \/ ~Certs[calls[k].der].expired
VerifyFailed == F("Error", <<"verify">>)
Times(e, f) == Cardinality({n \in 1..Len(e) : e[n] = f})
EndsWith(e, t) == Len(e) >= Len(t) /\ SubSeq(e, Len(e) - Len(t) + 1, Len(e)) = t

\* C14: when no issuer can be resolved for a certificate that is linted
\* (every AIA URL fails, or there is none), the issuer is nil, Trusted is
\* false, the findings hold exactly one "Failed to verify chain" Error, and
\* the findings of the certificate checks follow it.
C14_NoIssuerOneError ==
  \A k \in Calls :
    (Linted(k) /\ getIssuerPool(calls[k].der).issuer = Nil)
      => /\ calls[k].out.result.Issuer = Nil
         /\ ~calls[k].out.result.Trusted
         /\ Times(calls[k].out.result.Errors, VerifyFailed) = 1
         /\ EndsWith(calls[k].out.result.Errors,
                     <<VerifyFailed>> \o CertificateCheck(calls[k].der, Nil))

\* C15: for a certificate of type "-" do resolves no chain, does not touch
\* the cache, runs no check and adds no finding: the findings are those of
\* the ASN.1 linter, and nothing else.
C15_ExcludedUntouched ==
  \A k \in 1..Len(calls) :
    (Certs[calls[k].der].loads /\ Certs[calls[k].der].type = "-")
      => /\ ~calls[k].out.panic
         /\ calls[k].out.result.Errors = Certs[calls[k].der].asn1
         /\ calls[k].out.result.Issuer = Nil
         /\ calls[k].out.cache = calls[k].pre

\* C15 witness: a call of do on a certificate of type "-" that has a finding
\* of the ASN.1 linter, with a cache that holds the chain of its issuer.
C15_Witness ==
  \E k \in Calls :
    /\ Certs[calls[k].der].type = "-"
    /\ calls[k].out.result.Errors # <<>>
    /\ calls[k].pre.on /\ CacheHas(calls[k].pre.entries, ChainKey(calls[k].der))

\* The findings end with those of the certificate checks, and with the
\* default Info finding after them iff none is of severity Notice or higher.
ChecksRan(k) ==
  IF List(calls[k].out.result.Errors, NoticeUp) = <<>>
  THEN EndsWith(calls[k].out.result.Errors,
                CertificateCheck(calls[k].der, calls[k].out.result.Issuer)
                  \o <<Acceptable>>)
  ELSE /\ EndsWith(calls[k].out.result.Errors,
                   CertificateCheck(calls[k].der, calls[k].out.result.Issuer))
       /\ ~Has(calls[k].out.result.Errors, Acceptable)
\* The chain was resolved: with a cache, the cache holds it.
ChainResolved(k) ==
  calls[k].pre.on => CacheHas(calls[k].out.cache.entries, ChainKey(calls[k].der))

\* C16: without -expired an expired certificate is loaded and classified
\* and nothing further runs (no chain, no check, no "Failed to verify chain"
\* and no default Info finding); with -expired it goes through the chain
\* and the checks as an unexpired one does.
C16_ExpiredSkipped ==
  \A k \in Calls :
    (Certs[calls[k].der].loads /\ Certs[calls[k].der].type # "-"
       /\ Certs[calls[k].der].expired)
      => IF expOpt
         THEN ChainResolved(k) /\ ChecksRan(k)
         ELSE /\ calls[k].out.result.Errors = Certs[calls[k].der].asn1
              /\ calls[k].out.result.Type = Certs[calls[k].der].type
              /\ calls[k].out.result.Cert = calls[k].der
              /\ calls[k].out.result.Issuer = Nil
              /\ calls[k].out.cache = calls[k].pre

\* C16 witness: without -expired, a call of do on an expired certificate
\* with a cache that holds the chain of its issuer.
C16_Witness ==
  \E k \in Calls :
    /\ ~expOpt /\ Certs[calls[k].der].expired
    /\ calls[k].pre.on /\ CacheHas(calls[k].pre.entries, ChainKey(calls[k].der))

C18_WalkBounded == wkI <= 10

\* The fetches that yielded a certificate whose key did not make the
\* signature of the certificate the walk was at.
Mismatches ==
  {n \in 1..Len(wkLog) :
     wkLog[n].got # Nil /\ ~CheckSignatureFrom(wkLog[n].cert, wkLog[n].got)}

\* C19: when the certificate downloaded does not verify the signature of
\* the current certificate, the resolver reports an Error and stops: the
\* certificate is not added to the pool, is not returned as the issuer, and
\* the walk does not go on from it (no fetch follows, and the walk is over
\* where it was).
C19_MismatchStops ==
  \A n \in Mismatches :
    /\ Has(wkE, F("Error", <<"signature", wkLog[n].cert>>))
    /\ wkLog[n].got \notin wkPool
    /\ wkIssuer # wkLog[n].got
    /\ n = Len(wkLog) /\ wkPc = "done" /\ wkCert = wkLog[n].cert

\* The findings about downloads, and the fetches that failed.
DownloadFindings == SelectSeq(wkE, LAMBDA f : f.msg[1] = "download")
Failures == SelectSeq(wkLog, LAMBDA x : x.got = Nil)

\* C20: the URLs of a certificate are tried in the order listed; each fetch
\* that fails yields exactly one finding, of severity Warning, that names
\* the URL; the next URL is tried after a failure, and no URL is fetched
\* after the first one that yields a certificate.
C20_WarningPerFailedUrl ==
  /\ Len(DownloadFindings) = Len(Failures)
  /\ \A j \in 1..Len(Failures) :
       DownloadFindings[j] = F("Warning", <<"download", Failures[j].url>>)
  /\ \A n \in 1..Len(wkLog) :
       /\ wkLog[n].url = Certs[wkLog[n].cert].urls[wkLog[n].n]
       /\ wkLog[n].n = IF n > 1 /\ wkLog[n - 1].step = wkLog[n].step
                       THEN wkLog[n - 1].n + 1 ELSE 1
       /\ (n > 1 /\ wkLog[n - 1].step = wkLog[n].step) => wkLog[n - 1].got = Nil

\* C23: the reader closes jobs on every path on which it returns, and only
\* after its last send on jobs: once doBulk has returned, also where the
\* file could not be opened, jobs is closed; and while it is scanning, jobs
\* is open.
C23_JobsClosedOnExit ==
  /\ rpc # "scan" => jobsClosed
  /\ rpc = "scan" => ~jobsClosed

\* The calls of worker w before call k, and the cache the worker had when it
\* made call k, as its own calls left it.
Before(k) == {j \in 1..(k - 1) : calls[j].w = calls[k].w}
OwnCache(k) ==
  IF Before(k) = {} THEN NewCache
  ELSE calls[CHOOSE j \in Before(k) : \A i \in Before(k) : i <= j].out.cache
\* The calls that found the chain key of their certificate in the cache, and
\* the entry they found.
Hits ==
  {k \in Calls : /\ Linted(k) /\ calls[k].pre.on
                 /\ CacheHas(calls[k].pre.entries, ChainKey(calls[k].der))}
Stored(k) == CacheGet(calls[k].pre.entries, ChainKey(calls[k].der)).val
Fetching(f) == f.msg[1] \in {"download", "signature"}

\* C21: within one worker, a certificate whose chain key is in the cache is
\* resolved without a fetch and without verification: Trusted and the issuer
\* are those of the entry, no finding of a download is added, and the entry
\* stays as it was and no entry is added; a cache never holds more than 200
\* entries, and the cache a worker calls do with is the one its own calls
\* left.
C21_CacheIdempotent ==
  /\ \A k \in Hits :
       /\ calls[k].out.result.Trusted = Stored(k).Trusted
       /\ calls[k].out.result.Issuer = Stored(k).Issuer
       /\ \A n \in 1..Len(calls[k].out.result.Errors) :
            ~Fetching(calls[k].out.result.Errors[n])
       /\ CacheHas(calls[k].out.cache.entries, ChainKey(calls[k].der))
       /\ CacheGet(calls[k].out.cache.entries, ChainKey(calls[k].der)).val = Stored(k)
       /\ Len(calls[k].out.cache.entries) = Len(calls[k].pre.entries)
  /\ \A k \in 1..Len(calls) :
       /\ Len(calls[k].out.cache.entries) <= CacheCap
       /\ calls[k].w \in Workers => calls[k].pre = OwnCache(k)
  /\ \A w \in Workers :
       /\ Len(caches[w].entries) <= CacheCap
       /\ (\A k \in 1..Len(calls) : calls[k].w # w) => caches[w] = NewCache

\* C21 witness: a worker has stored a chain, another worker has made a call,
\* and the first worker has found the chain in its cache, for a certificate
\* with an AIA URL whose fetch fails.
C21_Witness ==
  \E k \in Hits :
    /\ getIssuerPool(calls[k].der).e # <<>>
    /\ Before(k) # {}
    /\ \E j \in 1..(k - 1) : calls[j].w # calls[k].w /\ \E i \in Before(k) : i < j

\* The rows of block id as a run writes them where the chain of its
\* certificate is freshly resolved (a worker whose cache is empty), and a
\* row with its Number left out.
FreshRows(id) ==
  RowsOf([do(NewCache, file[id], FALSE, expOpt, FALSE).result EXCEPT !.src = id], 0)
NoNumber(row) == [row EXCEPT !.Number = <<>>]

\* C22: the content of the report does not depend on the scheduling: the
\* rows written for a certificate, the Number column left out, are those of
\* the run in which its chain is freshly resolved, whichever worker got the
\* certificate and whatever that worker had in its cache.
C22_ReportIndependent ==
  \A k \in 1..Len(handled) :
    file[handled[k].src] # BadPem
      => {NoNumber(report[i]) : i \in RowsFrom(handled[k].src)}
           = {NoNumber(FreshRows(handled[k].src)[n]) :
                n \in 1..Len(FreshRows(handled[k].src))}

====
